---- MODULE Spec2Model ----
(***************************************************************************)
(* Model of the LEARNIFY test-taking modal (TestModal.tsx), of the page    *)
(* that mounts it (DocumentsPage.tsx) and of the REST calls it issues      *)
(* (api.ts).                                                               *)
(*                                                                         *)
(* One action is one event-loop task: a click handler up to its first      *)
(* await, the continuation of an awaited call, an interval callback.       *)
(* React commits the state updates of a task and re-renders before the     *)
(* next task runs, so a handler's closure holds the state of the step      *)
(* before it; the timer effect (deps [currentScreen, startTime]) is        *)
(* re-evaluated with every commit.                                         *)
(*                                                                         *)
(* Spec follows the modal, with each REST call settling as a whole.        *)
(* RestSpec follows the axios interceptors and token storage of api.ts     *)
(* for the requests of any caller.  AuthSpec follows the login and         *)
(* registration forms and the AuthProvider; InstallSpec follows the        *)
(* InstallPrompt component.                                                *)
(***************************************************************************)
EXTENDS Integers, Sequences, FiniteSets, TLC

\* ------------------------------------------------------------------ bounds
MaxQuestions == 2      \* questions in a generated test
MaxClockSteps == 1     \* advances of Date.now() the model follows
ClockStep == 1500      \* milliseconds per advance of Date.now()
FirstInstant == 1000   \* Date.now() when the page loads
MaxStaleCalls == 0     \* calls a modal issues while a call of a closed
                       \* modal is still pending
MaxRequests == 2       \* requests the REST client handles at a time
MaxSends == 3          \* times one request is put on the wire
MaxLogins == 2         \* login or registration calls that succeed
MaxDays == 8           \* days Date.now() moves on under the install prompt
MaxTimeouts == 1       \* 30-second timeouts of one kind pending at a time

\* --------------------------------------------------------------- constants
NullTime == 0 - 1                        \* null / undefined of a number
NullStr == "null"                        \* null / undefined of a string
NullTest == [status |-> "null", questions |-> << >>]
NullAttempt == [status |-> "null", answers |-> << >>,
                time_taken_seconds |-> NullTime]
Labels == {"A", "B", "C"}
Statuses == {"generating", "ready", "error"}
FallbackGenerateError == "Failed to generate test. Please try again."
SubmitAlert == "Failed to submit test. Please try again."
DefaultTotalQuestions == 20

VARIABLES
  \* DocumentsPage
  testModalOpen,          \* testModalOpen && selectedDocumentForTest
  \* TestModal useState
  currentScreen, test, isGenerating, generateError,
  currentQuestionIndex, answers, startTime, isSubmitting,
  testAttempt, elapsedSeconds,
  \* environment
  timerStart,             \* startTime captured by the live interval, or NullTime
  now,                    \* Date.now()
  inflight,               \* awaited REST calls whose continuation is pending
  \* observation of the last task
  lastOp,                 \* the handler or callback that ran last
  confirmLog,             \* window.confirm dialogs it raised, with the answers
  alertMsg,               \* window.alert message it raised, or NullStr
  \* REST client (api.ts)
  storage,                \* localStorage, by key
  location,               \* window.location.href
  reqs,                   \* the request configs axiosInstance handles
  \* AuthProvider useState, and the form whose call is awaited
  auth,
  \* InstallPrompt useState, its listeners and timeouts, the browser
  install

modal == <<currentScreen, test, isGenerating, generateError,
           currentQuestionIndex, answers, startTime, isSubmitting,
           testAttempt, elapsedSeconds>>
vars == <<testModalOpen, currentScreen, test, isGenerating,
          generateError, currentQuestionIndex, answers, startTime,
          isSubmitting, testAttempt, elapsedSeconds, timerStart, now,
          inflight, lastOp, confirmLog, alertMsg>>
rest == <<storage, location, reqs, auth, install>>

\* ------------------------------------------------------------ pure helpers
Truthy(n) == n # NullTime /\ n # 0
TruthyStr(s) == s # NullStr /\ s # ""

\* questionId.toString()
Key(questionId) == ToString(questionId)

\* Math.floor((Date.now() - startTime) / 1000)
Seconds(t, start) == (t - start) \div 1000

Pad2(n) == IF n < 10 THEN "0" \o ToString(n) ELSE ToString(n)
formatTime(seconds) == Pad2(seconds \div 60) \o ":" \o Pad2(seconds % 60)

\* test?.questions.length || 20
totalQuestions ==
  IF test # NullTest /\ Len(test.questions) # 0
  THEN Len(test.questions) ELSE DefaultTotalQuestions

\* test ? Object.keys(answers).length : 0
answeredCount ==
  IF test # NullTest THEN Cardinality(DOMAIN answers) ELSE 0

\* test?.questions[currentQuestionIndex]; 0 stands for undefined
currentQuestion ==
  IF test # NullTest /\ currentQuestionIndex + 1 \in 1..Len(test.questions)
  THEN test.questions[currentQuestionIndex + 1] ELSE 0

\* the questions of a test the backend returns
Questions(n) == [i \in 1..n |-> i]

\* a timer effect that returns no cleanup: the interval outlives the screen
TimerEffect_NoCleanup(screen, start) ==
  IF screen = "test" /\ Truthy(start) THEN start ELSE timerStart

\* the interval the timer effect leaves behind for a committed state
TimerEffect(screen, start) ==
  IF screen = "test" /\ Truthy(start) THEN start ELSE NullTime

\* what a task of the page leaves to be observed; the REST client's
\* interceptors are followed by RestSpec, not here
Observe(op, log, alert) ==
  /\ lastOp' = op /\ confirmLog' = log /\ alertMsg' = alert
  /\ UNCHANGED rest

Init ==
  /\ testModalOpen = FALSE
  /\ currentScreen = "start"
  /\ test = NullTest
  /\ isGenerating = FALSE
  /\ generateError = NullStr
  /\ currentQuestionIndex = 0
  /\ answers = << >>
  /\ startTime = NullTime
  /\ isSubmitting = FALSE
  /\ testAttempt = NullAttempt
  /\ elapsedSeconds = 0
  /\ timerStart = NullTime
  /\ now = FirstInstant
  /\ inflight = {}
  /\ lastOp = "load"
  /\ confirmLog = << >>
  /\ alertMsg = NullStr

\* the useState initial values of a fresh TestModal
FreshModal ==
  /\ currentScreen' = "start"
  /\ test' = NullTest
  /\ isGenerating' = FALSE
  /\ generateError' = NullStr
  /\ currentQuestionIndex' = 0
  /\ answers' = << >>
  /\ startTime' = NullTime
  /\ isSubmitting' = FALSE
  /\ testAttempt' = NullAttempt
  /\ elapsedSeconds' = 0
  /\ timerStart' = NullTime

\* --------------------------------------------------------- DocumentsPage
handleCreateTest ==
  /\ ~testModalOpen
  /\ testModalOpen' = TRUE
  /\ FreshModal
  /\ Observe("handleCreateTest", << >>, NullStr)
  /\ UNCHANGED <<now, inflight>>

\* a main render that shows the test screen whatever currentScreen is
TestScreenRendered_AnyScreen ==
  testModalOpen /\ test # NullTest /\ currentQuestion # 0

\* which screen the main render shows
StartScreenRendered == testModalOpen /\ currentScreen = "start"
TestScreenRendered ==
  testModalOpen /\ currentScreen = "test" /\ test # NullTest
  /\ currentQuestion # 0
ResultsScreenRendered ==
  testModalOpen /\ currentScreen = "results" /\ testAttempt # NullAttempt

\* ------------------------------------------------------------- REST calls
\* an awaited call: what was sent, and whether the TestModal whose handler
\* awaits it is still mounted (setState of an unmounted component is a no-op)
Call(kind, ans, timeTaken) ==
  [kind |-> kind, answers |-> ans, timeTaken |-> timeTaken,
   mounted |-> TRUE, overtaken |-> 0]

Mounted(c) == c.mounted

\* the call once its modal is closed: the continuation no longer reads what
\* was sent, and continuations that do the same are taken as one
Unmounted(c) ==
  [kind |-> c.kind, answers |-> << >>, timeTaken |-> NullTime,
   mounted |-> FALSE, overtaken |-> c.overtaken]

\* issuing call c while calls of closed modals are pending: each of those is
\* overtaken once more, up to MaxStaleCalls times
CanCall == \A c \in inflight : Mounted(c) \/ c.overtaken < MaxStaleCalls
Issue(c) ==
  {IF Mounted(d) THEN d ELSE [d EXCEPT !.overtaken = @ + 1] : d \in inflight}
  \cup {c}

\* onClose: every rendered screen has a close control
handleCloseTestModal ==
  /\ StartScreenRendered \/ TestScreenRendered \/ ResultsScreenRendered
  /\ testModalOpen' = FALSE
  /\ FreshModal
  /\ inflight' = {Unmounted(c) : c \in inflight}
  /\ Observe("handleCloseTestModal", << >>, NullStr)
  /\ UNCHANGED now

\* Date.now() moves on
ClockAdvance ==
  /\ now < FirstInstant + MaxClockSteps * ClockStep
  /\ now' = now + ClockStep
  /\ Observe("clock", << >>, NullStr)
  /\ UNCHANGED <<testModalOpen, modal, timerStart, inflight>>

\* the setInterval callback of the timer effect
TimerTick ==
  /\ timerStart # NullTime
  /\ elapsedSeconds' = Seconds(now, timerStart)
  /\ Observe("timerTick", << >>, NullStr)
  /\ UNCHANGED <<testModalOpen, currentScreen, test, isGenerating,
                 generateError, currentQuestionIndex, answers, startTime,
                 isSubmitting, testAttempt, timerStart, now, inflight>>

\* a ?? b in place of a || b: an empty string counts as a message
OrElse_Nullish(a, b) == IF a # NullStr THEN a ELSE b

\* a || b on strings
OrElse(a, b) == IF TruthyStr(a) THEN a ELSE b

\* what a rejected call carries in error.response?.data
ErrorFields == {NullStr, ""}
ErrorPayloads ==
  [error : ErrorFields \cup {"server error"},
   message : ErrorFields \cup {"server message"},
   detail : ErrorFields \cup {"server detail"}]

GenerateErrorMessage(err) ==
  OrElse(err.error, OrElse(err.message, FallbackGenerateError))

\* ---------------------------------------------------------------- TestModal
\* Start Test with the button left enabled while generating
handleGenerateTest_NotDisabled ==
  /\ StartScreenRendered
  /\ CanCall
  /\ isGenerating' = TRUE
  /\ generateError' = NullStr
  /\ inflight' = Issue(Call("generate", << >>, NullTime))
  /\ timerStart' = TimerEffect(currentScreen, startTime)
  /\ Observe("handleGenerateTest", << >>, NullStr)
  /\ UNCHANGED <<testModalOpen, currentScreen, test,
                 currentQuestionIndex, answers, startTime, isSubmitting,
                 testAttempt, elapsedSeconds, now>>

\* Start Test: the part of handleGenerateTest before the await
handleGenerateTest ==
  /\ StartScreenRendered
  /\ ~isGenerating
  /\ CanCall
  /\ isGenerating' = TRUE
  /\ generateError' = NullStr
  /\ inflight' = Issue(Call("generate", << >>, NullTime))
  /\ timerStart' = TimerEffect(currentScreen, startTime)
  /\ Observe("handleGenerateTest", << >>, NullStr)
  /\ UNCHANGED <<testModalOpen, currentScreen, test,
                 currentQuestionIndex, answers, startTime, isSubmitting,
                 testAttempt, elapsedSeconds, now>>

\* the DocumentTest a successful generate call returns
GeneratedTest(status, n) ==
  [status |-> status, questions |-> Questions(n)]

\* apiService.generateTest resolved: the try block after the await, finally
GenerateResolved(c, generatedTest) ==
  /\ c \in inflight /\ c.kind = "generate"
  /\ inflight' = inflight \ {c}
  /\ IF Mounted(c)
     THEN /\ test' = generatedTest
          /\ currentScreen' = "test"
          /\ startTime' = now
          /\ answers' = << >>
          /\ currentQuestionIndex' = 0
          /\ isGenerating' = FALSE
          /\ timerStart' = TimerEffect("test", now)
          /\ UNCHANGED <<generateError, isSubmitting, testAttempt,
                         elapsedSeconds>>
     ELSE UNCHANGED <<modal, timerStart>>
  /\ Observe("generateResolved", << >>, NullStr)
  /\ UNCHANGED <<testModalOpen, now>>

\* apiService.generateTest rejected: the catch block, finally
GenerateRejected(c, err) ==
  /\ c \in inflight /\ c.kind = "generate"
  /\ inflight' = inflight \ {c}
  /\ IF Mounted(c)
     THEN /\ generateError' = GenerateErrorMessage(err)
          /\ isGenerating' = FALSE
          /\ timerStart' = TimerEffect(currentScreen, startTime)
          /\ UNCHANGED <<currentScreen, test, currentQuestionIndex, answers,
                         startTime, isSubmitting, testAttempt, elapsedSeconds>>
     ELSE UNCHANGED <<modal, timerStart>>
  /\ Observe("generateRejected", << >>, NullStr)
  /\ UNCHANGED <<testModalOpen, now>>

\* an updater that deselects when the chosen label is clicked again
AnswerSelected_Toggle(prev, questionId, answer) ==
  IF Key(questionId) \in DOMAIN prev /\ prev[Key(questionId)] = answer
  THEN [k \in DOMAIN prev \ {Key(questionId)} |-> prev[k]]
  ELSE [k \in DOMAIN prev \cup {Key(questionId)} |->
          IF k = Key(questionId) THEN answer ELSE prev[k]]

\* an updater that files the answer under the current index
AnswerSelected_IndexKey(prev, questionId, answer) ==
  [k \in DOMAIN prev \cup {Key(currentQuestionIndex)} |->
     IF k = Key(currentQuestionIndex) THEN answer ELSE prev[k]]

\* the updater handleAnswerSelect passes to setAnswers
AnswerSelected(prev, questionId, answer) ==
  [k \in DOMAIN prev \cup {Key(questionId)} |->
     IF k = Key(questionId) THEN answer ELSE prev[k]]

\* an option button that also moves on to the next question
handleAnswerSelect_Advances(answer) ==
  /\ TestScreenRendered
  /\ answers' = AnswerSelected(answers, currentQuestion, answer)
  /\ currentQuestionIndex' =
       IF currentQuestionIndex < Len(test.questions) - 1
       THEN currentQuestionIndex + 1 ELSE currentQuestionIndex
  /\ timerStart' = TimerEffect(currentScreen, startTime)
  /\ Observe("handleAnswerSelect", << >>, NullStr)
  /\ UNCHANGED <<testModalOpen, currentScreen, test, isGenerating,
                 generateError, startTime, isSubmitting,
                 testAttempt, elapsedSeconds, now, inflight>>

\* an option button of the current question
handleAnswerSelect(answer) ==
  /\ TestScreenRendered
  /\ answers' = AnswerSelected(answers, currentQuestion, answer)
  /\ timerStart' = TimerEffect(currentScreen, startTime)
  /\ Observe("handleAnswerSelect", << >>, NullStr)
  /\ UNCHANGED <<testModalOpen, currentScreen, test, isGenerating,
                 generateError, currentQuestionIndex, startTime, isSubmitting,
                 testAttempt, elapsedSeconds, now, inflight>>

\* handlePreviousQuestion: the index it leaves, given the index it closes over
PreviousIndex(closedIndex, prev) ==
  IF closedIndex > 0 THEN prev - 1 ELSE prev

\* handleNextQuestion with the guard off by one
NextIndex_OffByOne(closedTest, closedIndex, prev) ==
  IF closedTest # NullTest /\ closedIndex < Len(closedTest.questions)
  THEN prev + 1 ELSE prev

\* handleNextQuestion: the index it leaves
NextIndex(closedTest, closedIndex, prev) ==
  IF closedTest # NullTest /\ closedIndex < Len(closedTest.questions) - 1
  THEN prev + 1 ELSE prev

\* Previous button, disabled on the first question
handlePreviousQuestion ==
  /\ TestScreenRendered
  /\ currentQuestionIndex # 0
  /\ currentQuestionIndex' =
       PreviousIndex(currentQuestionIndex, currentQuestionIndex)
  /\ timerStart' = TimerEffect(currentScreen, startTime)
  /\ Observe("handlePreviousQuestion", << >>, NullStr)
  /\ UNCHANGED <<testModalOpen, currentScreen, test, isGenerating,
                 generateError, answers, startTime, isSubmitting,
                 testAttempt, elapsedSeconds, now, inflight>>

\* a Next button that also restarts the session clock
handleNextQuestion_RestartsClock ==
  /\ TestScreenRendered
  /\ currentQuestionIndex # totalQuestions - 1
  /\ currentQuestionIndex' =
       NextIndex(test, currentQuestionIndex, currentQuestionIndex)
  /\ startTime' = now
  /\ timerStart' = TimerEffect(currentScreen, now)
  /\ Observe("handleNextQuestion", << >>, NullStr)
  /\ UNCHANGED <<testModalOpen, currentScreen, test, isGenerating,
                 generateError, answers, isSubmitting,
                 testAttempt, elapsedSeconds, now, inflight>>

\* Next button, rendered on every question but the last
handleNextQuestion ==
  /\ TestScreenRendered
  /\ currentQuestionIndex # totalQuestions - 1
  /\ currentQuestionIndex' =
       NextIndex(test, currentQuestionIndex, currentQuestionIndex)
  /\ timerStart' = TimerEffect(currentScreen, startTime)
  /\ Observe("handleNextQuestion", << >>, NullStr)
  /\ UNCHANGED <<testModalOpen, currentScreen, test, isGenerating,
                 generateError, answers, startTime, isSubmitting,
                 testAttempt, elapsedSeconds, now, inflight>>

\* the lookup made under the question's position instead of its id
Unanswered_ByPosition(ans, questionId) ==
  Key(questionId - 1) \notin DOMAIN ans \/ ans[Key(questionId - 1)] = ""

\* !answers[q.id.toString()]
Unanswered(ans, questionId) ==
  Key(questionId) \notin DOMAIN ans \/ ans[Key(questionId)] = ""

\* test.questions.filter(q => !answers[q.id.toString()]).length
unansweredCount(closedTest, ans) ==
  Cardinality({i \in 1..Len(closedTest.questions) :
                 Unanswered(ans, closedTest.questions[i])})

Dialog(kind, accepted) == [dialog |-> kind, accepted |-> accepted]

\* handleSubmitTest without the return after a declined first dialog
SubmitGates_NoReturn(unanswered, c1, c2) ==
  [log |-> (IF unanswered > 0 THEN <<Dialog("incomplete", c1)>> ELSE << >>)
           \o <<Dialog("final", c2)>>,
   proceed |-> c2]

\* the two window.confirm gates of handleSubmitTest: the dialogs raised when
\* the user would answer c1 to the first and c2 to the second, and whether
\* the handler goes on to the call
SubmitGates(unanswered, c1, c2) ==
  IF unanswered > 0 /\ ~c1
  THEN [log |-> <<Dialog("incomplete", FALSE)>>, proceed |-> FALSE]
  ELSE [log |-> (IF unanswered > 0 THEN <<Dialog("incomplete", TRUE)>>
                 ELSE << >>) \o <<Dialog("final", c2)>>,
        proceed |-> c2]

\* the time taken read off the elapsed-time display
TimeTaken_FromElapsed(start, t) ==
  IF Truthy(start) THEN elapsedSeconds ELSE NullTime

\* startTime ? Math.floor((Date.now() - startTime) / 1000) : undefined
TimeTaken(start, t) == IF Truthy(start) THEN Seconds(t, start) ELSE NullTime

\* a Submit Test button rendered under every question
handleSubmitTest_AnyQuestion(c1, c2) ==
  /\ TestScreenRendered
  /\ ~isSubmitting
  /\ LET gates == SubmitGates(unansweredCount(test, answers), c1, c2) IN
       /\ gates.proceed => CanCall
       /\ Observe("handleSubmitTest", gates.log, NullStr)
       /\ IF gates.proceed
          THEN /\ isSubmitting' = TRUE
               /\ inflight' =
                    Issue(Call("submit", answers, TimeTaken(startTime, now)))
          ELSE UNCHANGED <<isSubmitting, inflight>>
  /\ timerStart' = TimerEffect(currentScreen, startTime)
  /\ UNCHANGED <<testModalOpen, currentScreen, test, isGenerating,
                 generateError, currentQuestionIndex, answers, startTime,
                 testAttempt, elapsedSeconds, now>>

\* Submit Test button (last question, disabled while submitting): the part of
\* handleSubmitTest before the await
handleSubmitTest(c1, c2) ==
  /\ TestScreenRendered
  /\ currentQuestionIndex = totalQuestions - 1
  /\ ~isSubmitting
  /\ LET gates == SubmitGates(unansweredCount(test, answers), c1, c2) IN
       /\ gates.proceed => CanCall
       /\ Observe("handleSubmitTest", gates.log, NullStr)
       /\ IF gates.proceed
          THEN /\ isSubmitting' = TRUE
               /\ inflight' =
                    Issue(Call("submit", answers, TimeTaken(startTime, now)))
          ELSE UNCHANGED <<isSubmitting, inflight>>
  /\ timerStart' = TimerEffect(currentScreen, startTime)
  /\ UNCHANGED <<testModalOpen, currentScreen, test, isGenerating,
                 generateError, currentQuestionIndex, answers, startTime,
                 testAttempt, elapsedSeconds, now>>

\* the TestAttempt the backend returns for a submit call
GradedAttempt(c) ==
  [status |-> "completed", answers |-> c.answers,
   time_taken_seconds |-> c.timeTaken]

\* the attempt with the counts the backend's grading adds, for a test of
\* n questions of which it found correct right
Graded(c, n, correct) ==
  GradedAttempt(c) @@
  [correct_count |-> correct, incorrect_count |-> n - correct]

\* a submit continuation that counts the answers itself
SubmitResolved_Recounts(c, result) ==
  /\ c \in inflight /\ c.kind = "submit"
  /\ inflight' = inflight \ {c}
  /\ IF Mounted(c)
     THEN /\ testAttempt' =
               [result EXCEPT
                  !.correct_count = Cardinality(DOMAIN answers),
                  !.incorrect_count =
                     Len(test.questions) - Cardinality(DOMAIN answers)]
          /\ currentScreen' = "results"
          /\ isSubmitting' = FALSE
          /\ timerStart' = TimerEffect("results", startTime)
          /\ UNCHANGED <<test, isGenerating, generateError,
                         currentQuestionIndex, answers, startTime,
                         elapsedSeconds>>
     ELSE UNCHANGED <<modal, timerStart>>
  /\ Observe("submitResolved", << >>, NullStr)
  /\ UNCHANGED <<testModalOpen, now>>

\* apiService.submitTest resolved
SubmitResolved(c, result) ==
  /\ c \in inflight /\ c.kind = "submit"
  /\ inflight' = inflight \ {c}
  /\ IF Mounted(c)
     THEN /\ testAttempt' = result
          /\ currentScreen' = "results"
          /\ isSubmitting' = FALSE
          /\ timerStart' = TimerEffect("results", startTime)
          /\ UNCHANGED <<test, isGenerating, generateError,
                         currentQuestionIndex, answers, startTime,
                         elapsedSeconds>>
     ELSE UNCHANGED <<modal, timerStart>>
  /\ Observe("submitResolved", << >>, NullStr)
  /\ UNCHANGED <<testModalOpen, now>>

\* a rejected submit whose handler has no finally block
SubmitRejected_NoFinally(c) ==
  /\ c \in inflight /\ c.kind = "submit"
  /\ inflight' = inflight \ {c}
  /\ timerStart' = TimerEffect(currentScreen, startTime)
  /\ Observe("submitRejected", << >>, SubmitAlert)
  /\ UNCHANGED <<testModalOpen, modal, now>>

\* apiService.submitTest rejected: alert, finally
SubmitRejected(c) ==
  /\ c \in inflight /\ c.kind = "submit"
  /\ inflight' = inflight \ {c}
  /\ IF Mounted(c)
     THEN /\ isSubmitting' = FALSE
          /\ timerStart' = TimerEffect(currentScreen, startTime)
          /\ UNCHANGED <<currentScreen, test, isGenerating, generateError,
                         currentQuestionIndex, answers, startTime,
                         testAttempt, elapsedSeconds>>
     ELSE UNCHANGED <<modal, timerStart>>
  /\ Observe("submitRejected", << >>, SubmitAlert)
  /\ UNCHANGED <<testModalOpen, now>>

\* Take Another Test without setElapsedSeconds(0)
TakeAnotherTest_KeepsElapsed ==
  /\ ResultsScreenRendered
  /\ currentScreen' = "start"
  /\ test' = NullTest
  /\ testAttempt' = NullAttempt
  /\ answers' = << >>
  /\ currentQuestionIndex' = 0
  /\ startTime' = NullTime
  /\ timerStart' = TimerEffect("start", NullTime)
  /\ Observe("takeAnotherTest", << >>, NullStr)
  /\ UNCHANGED <<testModalOpen, isGenerating, generateError,
                 isSubmitting, elapsedSeconds, now, inflight>>

\* Take Another Test without setAnswers({})
TakeAnotherTest_KeepsAnswers ==
  /\ ResultsScreenRendered
  /\ currentScreen' = "start"
  /\ test' = NullTest
  /\ testAttempt' = NullAttempt
  /\ currentQuestionIndex' = 0
  /\ startTime' = NullTime
  /\ elapsedSeconds' = 0
  /\ timerStart' = TimerEffect("start", NullTime)
  /\ Observe("takeAnotherTest", << >>, NullStr)
  /\ UNCHANGED <<testModalOpen, isGenerating, generateError,
                 isSubmitting, answers, now, inflight>>

\* Take Another Test
TakeAnotherTest ==
  /\ ResultsScreenRendered
  /\ currentScreen' = "start"
  /\ test' = NullTest
  /\ testAttempt' = NullAttempt
  /\ answers' = << >>
  /\ currentQuestionIndex' = 0
  /\ startTime' = NullTime
  /\ elapsedSeconds' = 0
  /\ timerStart' = TimerEffect("start", NullTime)
  /\ Observe("takeAnotherTest", << >>, NullStr)
  /\ UNCHANGED <<testModalOpen, isGenerating, generateError,
                 isSubmitting, now, inflight>>

\* the tests a generate call can resolve with: a ready test has its
\* questions, a test still generating or failed has none
Responses ==
  {GeneratedTest("ready", n) : n \in 1..MaxQuestions}
  \cup {GeneratedTest(s, 0) : s \in Statuses \ {"ready"}}

\* what call c can settle with; a continuation whose modal is closed uses
\* none of it, so one value stands for all
ResponsesFor(c) ==
  IF Mounted(c) THEN Responses ELSE {GeneratedTest("ready", 1)}
ErrorsFor(c) ==
  IF Mounted(c) THEN ErrorPayloads
  ELSE {[error |-> NullStr, message |-> NullStr, detail |-> NullStr]}

\* the attempts a submit call can resolve with: none of the answers it
\* sent was right, or all of them were
AttemptsFor(c) ==
  IF Mounted(c)
  THEN {Graded(c, Len(test.questions), k) :
          k \in {0, Cardinality(DOMAIN c.answers)}}
  ELSE {Graded(c, 0, 0)}

Next ==
  \/ handleCreateTest
  \/ handleCloseTestModal
  \/ ClockAdvance
  \/ TimerTick
  \/ handleGenerateTest
  \/ \E c \in inflight : \E t \in ResponsesFor(c) : GenerateResolved(c, t)
  \/ \E c \in inflight : \E err \in ErrorsFor(c) : GenerateRejected(c, err)
  \/ \E a \in Labels : handleAnswerSelect(a)
  \/ handlePreviousQuestion
  \/ handleNextQuestion
  \/ \E c1, c2 \in BOOLEAN : handleSubmitTest(c1, c2)
  \/ \E c \in inflight : \E result \in AttemptsFor(c) :
        SubmitResolved(c, result)
  \/ \E c \in inflight : SubmitRejected(c)
  \/ TakeAnotherTest

\* ------------------------------------------------- REST client (api.ts)
AppLocation == "/documents"
LoginLocation == "/login"

Bearer(token) == "Bearer " \o token

\* a request config before the request interceptor has seen it
NewRequest ==
  [phase |-> "new", retry |-> FALSE, Authorization |-> NullStr,
   refreshToken |-> NullStr, status |-> 0, sends |-> 0, refreshes |-> 0]

\* localStorage holding the two keys the REST client reads and no other
Tokens(access, refresh) ==
  [accessToken |-> access, refreshToken |-> refresh,
   access_token |-> NullStr, refresh_token |-> NullStr,
   installPromptDismissed |-> NullStr]
getAccessToken == storage.accessToken
getRefreshToken == storage.refreshToken
setTokens(accessToken, refreshToken) ==
  [storage EXCEPT !.accessToken = accessToken, !.refreshToken = refreshToken]
clearTokens ==
  [storage EXCEPT !.accessToken = NullStr, !.refreshToken = NullStr]

\* localStorage when the page loads: nothing stored (first visit), both
\* tokens (after the login form), the access token alone (after the
\* registration form, which files its tokens under other keys)
StoredAtLoad ==
  {Tokens(NullStr, NullStr), Tokens("access0", "refresh0"),
   [Tokens("access0", NullStr) EXCEPT
      !.access_token = "access0", !.refresh_token = "refresh0"]}

\* AuthProvider state: nobody signed in, and the user of a token signed in
SignedOut ==
  [user |-> NullStr, token |-> NullStr, loading |-> FALSE,
   checking |-> NullStr, form |-> "idle", logins |-> 0]
SignedIn(accessToken) ==
  [SignedOut EXCEPT !.user = "user", !.token = accessToken]

\* InstallPrompt before the page mounts it
NotMounted ==
  [mounted |-> FALSE, deferredPrompt |-> FALSE, showInstallPrompt |-> FALSE,
   isInstalled |-> FALSE, listenerSees |-> FALSE,
   timeouts |-> [c \in BOOLEAN |-> 0],
   standalone |-> FALSE, appInstalled |-> FALSE]

\* the access token the refresh endpoint returns to request r
Refreshed(r) == "access" \o ToString(r)

\* a request interceptor that sets no header
RequestInterceptor_NoHeader(config, token) == config

\* the request interceptor
RequestInterceptor(config, token) ==
  IF TruthyStr(token) THEN [config EXCEPT !.Authorization = Bearer(token)]
  ELSE config

\* putting a config on the wire: request interceptor, then the adapter
Sent(config, token) ==
  [RequestInterceptor(config, token) EXCEPT
     !.phase = "sent", !.sends = @ + 1]

RestIdle ==
  /\ storage = Tokens("access0", "refresh0")
  /\ location = AppLocation
  /\ reqs = [r \in 1..MaxRequests |-> NewRequest]
  /\ auth = SignedIn("access0")
  /\ install = NotMounted

RestInit ==
  /\ Init
  /\ storage \in StoredAtLoad
  /\ location = AppLocation
  /\ reqs = [r \in 1..MaxRequests |-> NewRequest]
  /\ auth = (IF TruthyStr(storage.accessToken)
             THEN SignedIn(storage.accessToken) ELSE SignedOut)
  /\ install = NotMounted

\* an apiService method calls axiosInstance
ApiCall(r) ==
  /\ reqs[r].phase = "new"
  /\ reqs' = [reqs EXCEPT ![r] = Sent(@, getAccessToken)]
  /\ UNCHANGED <<storage, location, vars, auth, install>>

\* response interceptor, first handler
ResponseOk(r) ==
  /\ reqs[r].phase = "sent"
  /\ reqs' = [reqs EXCEPT ![r].phase = "resolved"]
  /\ UNCHANGED <<storage, location, vars, auth, install>>

\* a refresh branch that does not look at _retry
TakesRefreshBranch_IgnoresRetry(config, status) == status = 401

\* whether the response interceptor takes the refresh branch
TakesRefreshBranch(config, status) == status = 401 /\ ~config.retry

\* a second handler that logs out when there is no refresh token to use
ResponseError_LogsOut(r, status) ==
  /\ reqs[r].phase = "sent"
  /\ reqs' = [reqs EXCEPT ![r] =
       IF TakesRefreshBranch(@, status)
       THEN IF TruthyStr(getRefreshToken)
            THEN [@ EXCEPT !.retry = TRUE, !.status = status,
                           !.phase = "refreshing",
                           !.refreshToken = getRefreshToken,
                           !.refreshes = @ + 1]
            ELSE [@ EXCEPT !.retry = TRUE, !.status = status,
                           !.phase = "rejected"]
       ELSE [@ EXCEPT !.status = status, !.phase = "rejected"]]
  /\ IF TakesRefreshBranch(reqs[r], status) /\ ~TruthyStr(getRefreshToken)
     THEN storage' = clearTokens /\ location' = LoginLocation
     ELSE UNCHANGED <<storage, location>>
  /\ UNCHANGED <<vars, auth, install>>

\* response interceptor, second handler, up to the await of the refresh
\* call or to the final Promise.reject(error)
ResponseError(r, status) ==
  /\ reqs[r].phase = "sent"
  /\ reqs' = [reqs EXCEPT ![r] =
       IF TakesRefreshBranch(@, status)
       THEN IF TruthyStr(getRefreshToken)
            THEN [@ EXCEPT !.retry = TRUE, !.status = status,
                           !.phase = "refreshing",
                           !.refreshToken = getRefreshToken,
                           !.refreshes = @ + 1]
            ELSE [@ EXCEPT !.retry = TRUE, !.status = status,
                           !.phase = "rejected"]
       ELSE [@ EXCEPT !.status = status, !.phase = "rejected"]]
  /\ UNCHANGED <<storage, location, vars, auth, install>>

\* the refresh call resolved: setTokens, new header, replay
RefreshResolved(r) ==
  /\ reqs[r].phase = "refreshing"
  /\ reqs[r].sends < MaxSends
  /\ storage' = setTokens(Refreshed(r), reqs[r].refreshToken)
  /\ reqs' = [reqs EXCEPT ![r] =
       Sent([@ EXCEPT !.Authorization = Bearer(Refreshed(r))],
            storage'.accessToken)]
  /\ UNCHANGED <<location, vars, auth, install>>

\* the refresh call rejected: the catch block
RefreshRejected(r) ==
  /\ reqs[r].phase = "refreshing"
  /\ storage' = clearTokens
  /\ location' = LoginLocation
  /\ reqs' = [reqs EXCEPT ![r].phase = "rejected"]
  /\ UNCHANGED <<vars, auth, install>>

\* AuthContext logout
logout ==
  /\ storage # clearTokens
  /\ storage' = clearTokens
  /\ auth' = [auth EXCEPT !.user = NullStr, !.token = NullStr]
  /\ UNCHANGED <<location, reqs, vars, install>>

ErrorStatuses == {401, 500}

RestNext ==
  \/ \E r \in 1..MaxRequests : ApiCall(r)
  \/ \E r \in 1..MaxRequests : ResponseOk(r)
  \/ \E r \in 1..MaxRequests : \E status \in ErrorStatuses :
        ResponseError(r, status)
  \/ \E r \in 1..MaxRequests : RefreshResolved(r)
  \/ \E r \in 1..MaxRequests : RefreshRejected(r)
  \/ logout

\* ------------------------------- login, registration, AuthProvider
RegisterLocation == "/register"
DashboardLocation == "/dashboard"

\* the AuthResponse of the n-th login or registration call that succeeds
AuthResponse(n) ==
  [access |-> "accessL" \o ToString(n), refresh |-> "refreshL" \o ToString(n),
   user |-> "user"]

\* AuthProvider login(userData, accessToken): what it leaves in the
\* provider's state and in localStorage st
login(st, userData, accessToken) ==
  [auth |-> [auth EXCEPT !.user = userData, !.token = accessToken],
   storage |-> [st EXCEPT !.accessToken = accessToken]]

\* the AuthProvider after its mount effect has run checkAuth up to the
\* await of getProfile, or to its end when a token is missing
Loaded(st, logins) ==
  IF TruthyStr(st.accessToken) /\ TruthyStr(st.refreshToken)
  THEN [SignedOut EXCEPT !.loading = TRUE, !.checking = st.accessToken,
                         !.logins = logins]
  ELSE [SignedOut EXCEPT !.logins = logins]

AuthInit ==
  /\ Init
  /\ storage \in StoredAtLoad
  /\ location = AppLocation
  /\ reqs = [r \in 1..MaxRequests |-> NewRequest]
  /\ auth = Loaded(storage, 0)
  /\ install = NotMounted

\* the page is loaded again: the AuthProvider mounts and runs checkAuth
checkAuth ==
  /\ auth' = Loaded(storage, auth.logins)
  /\ auth' # auth
  /\ UNCHANGED <<storage, location, reqs, install, vars>>

\* getProfile resolved: setUser, setToken(accessToken), setLoading(false)
ProfileResolved ==
  /\ auth.checking # NullStr
  /\ auth' = [auth EXCEPT !.user = "user", !.token = auth.checking,
                          !.loading = FALSE, !.checking = NullStr]
  /\ UNCHANGED <<storage, location, reqs, install, vars>>

\* getProfile rejected: both keys removed, setLoading(false)
ProfileRejected ==
  /\ auth.checking # NullStr
  /\ storage' = [storage EXCEPT !.accessToken = NullStr,
                                !.refreshToken = NullStr]
  /\ auth' = [auth EXCEPT !.loading = FALSE, !.checking = NullStr]
  /\ UNCHANGED <<location, reqs, install, vars>>

\* a link to the login or to the registration page
GoTo(page) ==
  /\ location # page
  /\ location' = page
  /\ UNCHANGED <<storage, reqs, auth, install, vars>>

\* LoginPage handleSubmit up to the await of apiService.login
LoginSubmit ==
  /\ location = LoginLocation
  /\ auth.form = "idle"
  /\ auth.logins < MaxLogins
  /\ auth' = [auth EXCEPT !.form = "login"]
  /\ UNCHANGED <<storage, location, reqs, install, vars>>

\* apiService.login resolved: both tokens stored, login(), navigate
LoginResolved ==
  /\ auth.form = "login"
  /\ LET response == AuthResponse(auth.logins + 1)
         stored == [storage EXCEPT !.accessToken = response.access,
                                   !.refreshToken = response.refresh]
         done == login(stored, response.user, response.access)
     IN /\ storage' = done.storage
        /\ auth' = [done.auth EXCEPT !.form = "idle", !.logins = @ + 1]
  /\ location' = DashboardLocation
  /\ UNCHANGED <<reqs, install, vars>>

\* apiService.login rejected: the catch block shows the error
LoginRejected ==
  /\ auth.form = "login"
  /\ auth' = [auth EXCEPT !.form = "idle"]
  /\ UNCHANGED <<storage, location, reqs, install, vars>>

\* RegisterPage handleSubmit up to the await of apiService.register
RegisterSubmit ==
  /\ location = RegisterLocation
  /\ auth.form = "idle"
  /\ auth.logins < MaxLogins
  /\ auth' = [auth EXCEPT !.form = "register"]
  /\ UNCHANGED <<storage, location, reqs, install, vars>>

\* apiService.register resolved: tokens stored, login(), navigate
RegisterResolved ==
  /\ auth.form = "register"
  /\ LET response == AuthResponse(auth.logins + 1)
         stored == [storage EXCEPT !.access_token = response.access,
                                   !.refresh_token = response.refresh]
         done == login(stored, response.user, response.access)
     IN /\ storage' = done.storage
        /\ auth' = [done.auth EXCEPT !.form = "idle", !.logins = @ + 1]
  /\ location' = DashboardLocation
  /\ UNCHANGED <<reqs, install, vars>>

\* apiService.register rejected: the catch block shows the error
RegisterRejected ==
  /\ auth.form = "register"
  /\ auth' = [auth EXCEPT !.form = "idle"]
  /\ UNCHANGED <<storage, location, reqs, install, vars>>

AuthNext ==
  \/ \E page \in {LoginLocation, RegisterLocation} : GoTo(page)
  \/ LoginSubmit
  \/ LoginResolved
  \/ LoginRejected
  \/ RegisterSubmit
  \/ RegisterResolved
  \/ RegisterRejected
  \/ checkAuth
  \/ ProfileResolved
  \/ ProfileRejected
  \/ logout

\* ---------------------------------------------------- InstallPrompt
DayMs == 24 * 60 * 60 * 1000
sevenDays == 7 * 24 * 60 * 60 * 1000

\* the values Date.now() takes under the install prompt
Instants == {FirstInstant + d * DayMs : d \in 0..MaxDays}

\* parseInt of a string that Date.now().toString() wrote
parseInt(s) == CHOOSE n \in Instants : ToString(n) = s

\* the test of the dismissal effect
DismissedRecently(dismissed, t) ==
  TruthyStr(dismissed) /\ t - parseInt(dismissed) < sevenDays

\* the dismissal effect, run once at mount: what it leaves of
\* showInstallPrompt
DismissalEffect(show, dismissed, t) ==
  IF DismissedRecently(dismissed, t) THEN FALSE ELSE show

\* the component once mounted and its effects run: isInstalled is what
\* checkIfInstalled found, and the listeners close over it
MountedPrompt(isPWA, appInstalled) ==
  [mounted |-> TRUE, deferredPrompt |-> FALSE,
   showInstallPrompt |->
     DismissalEffect(FALSE, storage.installPromptDismissed, now),
   isInstalled |-> isPWA, listenerSees |-> isPWA,
   timeouts |-> [c \in BOOLEAN |-> 0],
   standalone |-> isPWA, appInstalled |-> appInstalled]

\* the render: null if isInstalled || !showInstallPrompt || !deferredPrompt
PromptRendered ==
  /\ install.mounted
  /\ ~(install.isInstalled \/ ~install.showInstallPrompt
        \/ ~install.deferredPrompt)

\* the state of the page and its modal, Date.now() apart
pageState == <<testModalOpen, modal, timerStart, inflight, lastOp,
               confirmLog, alertMsg>>

InstallInit ==
  /\ Init
  /\ storage = Tokens("access0", "refresh0")
  /\ location = AppLocation
  /\ reqs = [r \in 1..MaxRequests |-> NewRequest]
  /\ auth = SignedIn("access0")
  /\ install = MountedPrompt(FALSE, FALSE)

\* the page is loaded again, in a tab or (once installed) as the app
InstallPromptMount(isPWA) ==
  /\ isPWA => install.appInstalled
  /\ install' = MountedPrompt(isPWA, install.appInstalled)
  /\ UNCHANGED <<now, pageState, storage, location, reqs, auth>>

\* beforeinstallprompt, which a browser fires while the app is not
\* installed: the event is kept and the 30-second timeout set
handleBeforeInstallPrompt ==
  /\ install.mounted
  /\ ~install.appInstalled /\ ~install.standalone
  /\ install.timeouts[install.listenerSees] < MaxTimeouts
  /\ install' = [install EXCEPT
                   !.deferredPrompt = TRUE,
                   !.timeouts[install.listenerSees] = @ + 1]
  /\ UNCHANGED <<now, pageState, storage, location, reqs, auth>>

\* the 30 seconds are over, for a timeout whose closure holds isInstalled
\* as `captured`
Timeout(captured) ==
  /\ install.timeouts[captured] > 0
  /\ install' = [install EXCEPT
                   !.timeouts[captured] = @ - 1,
                   !.showInstallPrompt = IF ~captured THEN TRUE ELSE @]
  /\ UNCHANGED <<now, pageState, storage, location, reqs, auth>>

\* appinstalled
handleAppInstalled ==
  /\ install.mounted
  /\ ~install.appInstalled /\ ~install.standalone
  /\ install' = [install EXCEPT
                   !.isInstalled = TRUE, !.showInstallPrompt = FALSE,
                   !.deferredPrompt = FALSE, !.listenerSees = TRUE,
                   !.appInstalled = TRUE]
  /\ UNCHANGED <<now, pageState, storage, location, reqs, auth>>

\* Install button: the browser's dialog, then its outcome
handleInstallClick(outcome) ==
  /\ PromptRendered
  /\ install' = [install EXCEPT
                   !.deferredPrompt = FALSE, !.showInstallPrompt = FALSE]
  /\ UNCHANGED <<now, pageState, storage, location, reqs, auth>>

\* the X and Not now buttons
handleDismiss ==
  /\ PromptRendered
  /\ install' = [install EXCEPT !.showInstallPrompt = FALSE]
  /\ storage' = [storage EXCEPT !.installPromptDismissed = ToString(now)]
  /\ UNCHANGED <<now, pageState, location, reqs, auth>>

\* a day goes by
DayPasses ==
  /\ now < FirstInstant + MaxDays * DayMs
  /\ now' = now + DayMs
  /\ UNCHANGED <<pageState, rest>>

InstallNext ==
  \/ \E isPWA \in BOOLEAN : InstallPromptMount(isPWA)
  \/ handleBeforeInstallPrompt
  \/ \E captured \in BOOLEAN : Timeout(captured)
  \/ handleAppInstalled
  \/ \E outcome \in {"accepted", "dismissed"} : handleInstallClick(outcome)
  \/ handleDismiss
  \/ DayPasses

\* ------------------------------------------------------------- properties
UserOps == {"handleGenerateTest", "handleAnswerSelect",
            "handlePreviousQuestion", "handleNextQuestion",
            "handleSubmitTest", "takeAnotherTest", "handleCloseTestModal",
            "handleCreateTest"}

\* the submit calls a step issues, and the calls it settles
Issued == {c \in inflight' \ inflight : c.kind = "submit" /\ Mounted(c)}
Settled == IF testModalOpen' THEN inflight \ inflight' ELSE {}

SomeUnanswered ==
  \E i \in 1..Len(test.questions) :
     ToString(test.questions[i]) \notin DOMAIN answers

Declined(log) == \E i \in 1..Len(log) : ~log[i].accepted

\* C1: a submit call is issued only by handleSubmitTest and only after the
\* incomplete-answers dialog (raised exactly when a question is unanswered)
\* and then the final dialog were both accepted; a declined dialog issues no
\* call and leaves screen, answers, index, start instant and isSubmitting
\* as they were.
C1_SubmitOnlyAfterConfirmations ==
  [][ /\ Issued # {} =>
           /\ lastOp' = "handleSubmitTest"
           /\ confirmLog' =
                (IF SomeUnanswered THEN <<Dialog("incomplete", TRUE)>>
                 ELSE << >>) \o <<Dialog("final", TRUE)>>
      /\ (lastOp' = "handleSubmitTest" /\ Declined(confirmLog')) =>
           /\ inflight' = inflight
           /\ UNCHANGED <<currentScreen, answers, currentQuestionIndex,
                          startTime, isSubmitting>>
    ]_vars

\* C1 witness: one of two questions answered, the incomplete-answers dialog
\* declined, still on the test screen.
C1_Witness ==
  /\ lastOp = "handleSubmitTest"
  /\ confirmLog = <<Dialog("incomplete", FALSE)>>
  /\ currentScreen = "test"
  /\ Len(test.questions) = 2
  /\ Cardinality(DOMAIN answers) = 1
  /\ inflight = {}

\* C2: when a submit call of the mounted modal fails, the modal stays on the
\* test screen with exactly the answers the call was issued with, an alert
\* with a non-empty message is raised and isSubmitting is false again.
C2_FailedSubmitKeepsAnswers ==
  [][ \A c \in Settled :
        (c.kind = "submit" /\ lastOp' = "submitRejected" /\ Mounted(c)) =>
          /\ currentScreen' = "test"
          /\ answers' = c.answers
          /\ alertMsg' \notin {NullStr, ""}
          /\ ~isSubmitting'
    ]_vars

QuestionIds == {test.questions[i] : i \in 1..Len(test.questions)}

\* C4: on every reachable AnswerSet, selecting (q, a) twice gives what
\* selecting it once gives, and selecting (q, a) then (q, b) gives a set
\* where q maps to b; each selection leaves every other entry as it was.
\* An AnswerSet is new only as the empty one of a session or right after a
\* selection, and is examined there.
C4_SelectIdempotentLastWins ==
  (lastOp \in {"generateResolved", "handleAnswerSelect"}) =>
  \A q \in QuestionIds : \A a \in Labels :
    LET once == AnswerSelected(answers, q, a) IN
      /\ AnswerSelected(once, q, a) = once
      /\ DOMAIN once = DOMAIN answers \cup {ToString(q)}
      /\ once[ToString(q)] = a
      /\ \A k \in DOMAIN answers \ {ToString(q)} : once[k] = answers[k]
      /\ \A b \in Labels :
           LET then == AnswerSelected(once, q, b) IN
             /\ DOMAIN then = DOMAIN once
             /\ then[ToString(q)] = b
             /\ \A k \in DOMAIN once \ {ToString(q)} : then[k] = once[k]

\* C4 witness: an answer was just selected while another question already
\* had one.
C4_Witness ==
  /\ lastOp = "handleAnswerSelect"
  /\ currentScreen = "test"
  /\ Cardinality(DOMAIN answers) = 2
  /\ answers[ToString(currentQuestion)] = "B"

\* C5: every step that enters the test screen leaves an empty AnswerSet,
\* index 0, the current instant as start instant, no TestAttempt and an
\* elapsed display of 00:00.
C5_FreshSessionOnEntry ==
  [][ (currentScreen # "test" /\ currentScreen' = "test") =>
        /\ answers' = << >>
        /\ currentQuestionIndex' = 0
        /\ startTime' = now' /\ Truthy(startTime')
        /\ testAttempt' = NullAttempt
        /\ formatTime(elapsedSeconds') = "00:00"
    ]_vars

\* C5 witness: a two-question test has just been generated and the test
\* screen entered, a second and a half after the page loaded.
C5_Witness ==
  /\ lastOp = "generateResolved"
  /\ testModalOpen
  /\ currentScreen = "test"
  /\ Len(test.questions) = 2
  /\ startTime > FirstInstant

\* C6: the test screen is entered only with a test whose status is "ready".
C6_EntersOnlyWhenReady ==
  [][ (currentScreen # "test" /\ currentScreen' = "test") =>
        test'.status = "ready"
    ]_vars

\* C7: a failed generate call of the mounted modal leaves it on the start
\* screen with a non-empty error message, no test, the same answers, index
\* and start instant, and isGenerating false; a new generate request clears
\* the error message.
C7_GenerateFailure ==
  [][ /\ (lastOp' = "generateRejected" /\ \E c \in Settled : Mounted(c)) =>
           /\ currentScreen' = "start"
           /\ generateError' \notin {NullStr, ""}
           /\ test' = NullTest
           /\ UNCHANGED <<answers, currentQuestionIndex, startTime>>
           /\ ~isGenerating'
      /\ (lastOp' = "handleGenerateTest" /\ inflight' # inflight) =>
           generateError' = NullStr
    ]_vars

\* C7 witness: a generate call of the mounted modal has just failed with a
\* payload whose message field is the first non-empty one.
C7_Witness ==
  /\ lastOp = "generateRejected"
  /\ testModalOpen
  /\ generateError = "server message"
  /\ ~isGenerating

\* C8: Take Another Test runs only from the results screen and leaves the
\* start screen, no test, no attempt, an empty AnswerSet, index 0, no start
\* instant and an elapsed display of 00:00.
C8_Retake ==
  [][ lastOp' = "takeAnotherTest" =>
        /\ currentScreen = "results"
        /\ currentScreen' = "start"
        /\ test' = NullTest
        /\ testAttempt' = NullAttempt
        /\ answers' = << >>
        /\ currentQuestionIndex' = 0
        /\ startTime' = NullTime
        /\ formatTime(elapsedSeconds') = "00:00"
    ]_vars

\* C8 witness: Take Another Test has just run, after the first test.
C8_Witness ==
  /\ lastOp = "takeAnotherTest"
  /\ testModalOpen
  /\ currentScreen = "start"

\* C9: on the results screen every step other than Take Another Test and
\* close leaves answers and test as they are, and no answer selection,
\* navigation, submit or generate handler runs.
C9_ResultsFrozen ==
  [][ (testModalOpen /\ currentScreen = "results") =>
        \/ lastOp' \in {"takeAnotherTest", "handleCloseTestModal"}
        \/ /\ answers' = answers
           /\ test' = test
           /\ lastOp' \notin UserOps
    ]_vars

\* C9 witness: time has passed on the results screen of a session with
\* answers.
C9_Witness ==
  /\ testModalOpen /\ currentScreen = "results"
  /\ lastOp = "clock"
  /\ DOMAIN answers # {}
  /\ testAttempt.answers = answers

\* C10: while a submit call of the mounted modal is outstanding,
\* isSubmitting is true and the AnswerSet equals the one that was sent.
C10_AnswersFrozenWhileSubmitting ==
  \A c \in inflight :
    (c.kind = "submit" /\ Mounted(c)) =>
      isSubmitting /\ answers = c.answers

\* the calls of one kind the mounted modal awaits
MountedCalls(kind) == {c \in inflight : c.kind = kind /\ Mounted(c)}

\* C11: the mounted modal awaits at most one generate call and at most one
\* submit call; isGenerating (isSubmitting) is true while it awaits one, and
\* a step that issues a generate (submit) call starts with isGenerating
\* (isSubmitting) false and no such call pending.
C11_OneCallInFlight ==
  [][ /\ Cardinality(MountedCalls("generate")') <= 1
      /\ Cardinality(MountedCalls("submit")') <= 1
      /\ MountedCalls("generate")' # {} => isGenerating'
      /\ MountedCalls("submit")' # {} => isSubmitting'
      /\ lastOp' = "handleGenerateTest" =>
           /\ ~isGenerating /\ MountedCalls("generate") = {}
           /\ isGenerating'
      /\ (lastOp' = "handleSubmitTest" /\ inflight' # inflight) =>
           /\ ~isSubmitting /\ MountedCalls("submit") = {}
           /\ isSubmitting'
    ]_vars

\* C11 witness: time has passed while the submit call of the mounted modal
\* is outstanding and Submit Test is disabled.
C11_Witness ==
  /\ lastOp = "clock"
  /\ testModalOpen /\ isSubmitting
  /\ Cardinality(MountedCalls("submit")) = 1

\* C12: an interval is live exactly while the modal is mounted on the test
\* screen with a start instant, and it is the one that captured that start
\* instant; the timer callback runs only then, and elapsedSeconds changes
\* only by that callback or by a reset to 0.
C12_TimerOnlyInProgress ==
  [][ /\ (timerStart' # NullTime) <=>
           (testModalOpen' /\ currentScreen' = "test" /\ Truthy(startTime'))
      /\ timerStart' # NullTime => timerStart' = startTime'
      /\ lastOp' = "timerTick" =>
           /\ testModalOpen /\ currentScreen = "test" /\ Truthy(startTime)
           /\ elapsedSeconds' = Seconds(now, startTime)
      /\ elapsedSeconds' # elapsedSeconds =>
           lastOp' = "timerTick" \/ elapsedSeconds' = 0
    ]_vars

\* C12 witness: a session ran long enough for a tick to show one second, was
\* submitted, and the results screen is up with no interval left.
C12_Witness ==
  /\ testModalOpen /\ currentScreen = "results"
  /\ elapsedSeconds = 1
  /\ timerStart = NullTime
  /\ lastOp = "submitResolved"

Settlements == {"generateResolved", "generateRejected",
                "submitResolved", "submitRejected"}

\* C13: when a call whose modal was closed settles, successfully or not, the
\* step changes no state of the page or of any modal and raises no alert.
C13_StaleResponseDiscarded ==
  [][ (lastOp' \in Settlements /\ \E c \in inflight \ inflight' : ~Mounted(c))
        => /\ UNCHANGED <<testModalOpen, modal>>
           /\ alertMsg' = NullStr
    ]_vars

\* C14: the time taken a submit call carries is the number of whole seconds
\* from the start instant to the instant the call is issued, whatever
\* elapsedSeconds shows.
C14_TimeTakenFromStart ==
  [][ \A c \in Issued :
        /\ Truthy(startTime)
        /\ c.timeTaken >= 0
        /\ c.timeTaken * 1000 <= now - startTime
        /\ now - startTime < (c.timeTaken + 1) * 1000
    ]_vars

\* C14 witness: a submit call was just issued more than a second into a
\* session in which no tick ran, so the display still shows 0.
C14_Witness ==
  /\ lastOp = "handleSubmitTest"
  /\ elapsedSeconds = 0
  /\ \E c \in MountedCalls("submit") : c.timeTaken = 1

\* the message the precedence error field, detail field, generic text picks
ByPrecedence(err, generic) ==
  IF TruthyStr(err.error) THEN err.error
  ELSE IF TruthyStr(err.detail) THEN err.detail ELSE generic

\* C15: a generate call of the mounted modal that fails with payload err
\* leaves the message the precedence picks from err, and so does the alert
\* of a failed submit call.
C15_ErrorPrecedence ==
  [][ \A c \in inflight : \A err \in ErrorPayloads :
        /\ (Mounted(c) /\ GenerateRejected(c, err)) =>
             generateError' = ByPrecedence(err, FallbackGenerateError)
        /\ (Mounted(c) /\ SubmitRejected(c)) =>
             alertMsg' = ByPrecedence(err, SubmitAlert)
    ]_vars

\* C16: every key of the AnswerSet is the string form of a question id of
\* the current test (none when there is no test), every value is A, B or C,
\* and the answered count shown is at most the number of questions.
C16_AnswerSetWellFormed ==
  /\ DOMAIN answers \subseteq {ToString(q) : q \in QuestionIds}
  /\ \A k \in DOMAIN answers : answers[k] \in {"A", "B", "C"}
  /\ answeredCount <= Len(test.questions)

\* C16 witness: both questions of a test are answered and the user has gone
\* back to the first.
C16_Witness ==
  /\ lastOp = "handlePreviousQuestion"
  /\ Len(test.questions) = 2
  /\ answeredCount = 2

\* C17: a request is refreshed for at most once and put on the wire at most
\* twice, the second time exactly when its refresh call succeeded and then
\* with the access token that call returned, which is also the stored one;
\* a failure of the replay, 401 included, rejects the request with no
\* refresh call and no change of the stored tokens.
C17_RefreshOnceReplayOnce ==
  [][ \A r \in 1..MaxRequests :
        LET old == reqs[r]
            new == reqs'[r]
        IN /\ new.refreshes <= 1
           /\ new.sends <= 2
           /\ (old.phase = "refreshing" /\ new.phase = "sent") <=>
                new.sends = old.sends + 1 /\ new.sends = 2
           /\ (old.phase = "refreshing" /\ new.phase = "sent") =>
                /\ new.Authorization = "Bearer " \o Refreshed(r)
                /\ storage'.accessToken = Refreshed(r)
           /\ (old.phase = "sent" /\ old.sends = 2
                /\ new.phase \notin {"sent", "resolved"}) =>
                /\ new.phase = "rejected"
                /\ new.refreshes = old.refreshes
                /\ new.sends = old.sends
                /\ storage' = storage
    ]_<<vars, rest>>

\* C17 witness: a request was answered 401, refreshed for, replayed,
\* answered 401 again and rejected.
C17_Witness ==
  \E r \in 1..MaxRequests :
    /\ reqs[r].phase = "rejected"
    /\ reqs[r].status = 401
    /\ reqs[r].sends = 2
    /\ reqs[r].refreshes = 1

\* the requests a step puts on the wire
PutOnWire == {r \in 1..MaxRequests : reqs'[r].sends = reqs[r].sends + 1}

\* C18 as stated: every request put on the wire, the replay after a refresh
\* included, carries a bearer header with the access token stored at that
\* moment.
C18_AlwaysBearer ==
  [][ \A r \in PutOnWire :
        /\ storage'.accessToken \notin {NullStr, ""}
        /\ reqs'[r].Authorization = "Bearer " \o storage'.accessToken
    ]_<<vars, rest>>

\* C18 as amended: a request put on the wire while an access token is
\* stored carries a bearer header with that token, the replay after a
\* refresh included; one put on the wire while none is stored carries no
\* Authorization header.
C18_BearerWhenStored ==
  [][ \A r \in PutOnWire :
        IF storage'.accessToken \notin {NullStr, ""}
        THEN reqs'[r].Authorization = "Bearer " \o storage'.accessToken
        ELSE reqs'[r].Authorization = NullStr
    ]_<<vars, rest>>

\* C18 witness: a request sent with the token of the login is on the wire
\* again after a refresh, with the refreshed token that is now stored.
C18_Witness ==
  \E r \in 1..MaxRequests :
    /\ reqs[r].phase = "sent"
    /\ reqs[r].sends = 2
    /\ storage.accessToken = Refreshed(r)
    /\ reqs[r].Authorization = "Bearer " \o Refreshed(r)

\* C19: a submit call of the mounted modal that resolves with an attempt
\* leaves the results screen and exactly that attempt, so its counts add up
\* to the number of questions as the backend's do; no other step writes an
\* attempt, the remaining ones only clear it.
C19_AttemptAsReturned ==
  [][ /\ lastOp' = "submitResolved" =>
           \A c \in inflight : \A result \in AttemptsFor(c) :
             (Mounted(c) /\ SubmitResolved(c, result)) =>
               /\ currentScreen' = "results"
               /\ testAttempt' = result
      /\ testAttempt' # testAttempt =>
           IF lastOp' = "submitResolved"
           THEN testAttempt'.correct_count + testAttempt'.incorrect_count
                  = Len(test.questions)
           ELSE testAttempt' = NullAttempt
    ]_vars

\* C19 witness: a fully answered two-question test was submitted and the
\* attempt on the results screen has both answers wrong.
C19_Witness ==
  /\ lastOp = "submitResolved"
  /\ testModalOpen /\ currentScreen = "results"
  /\ Cardinality(DOMAIN testAttempt.answers) = 2
  /\ testAttempt.correct_count = 0
  /\ testAttempt.incorrect_count = 2

\* the close controls of the screen that is rendered
CloseAvailable ==
  StartScreenRendered \/ TestScreenRendered \/ ResultsScreenRendered

\* C20: while the modal is open a close control is on screen, and opening
\* the modal, for the first time or after a close, starts on the start
\* screen with no test, an empty AnswerSet, index 0 and no attempt.
C20_CloseAlwaysAvailable ==
  [][ /\ testModalOpen' => CloseAvailable'
      /\ lastOp' = "handleCloseTestModal" => ~testModalOpen'
      /\ lastOp' = "handleCreateTest" =>
           /\ testModalOpen'
           /\ currentScreen' = "start"
           /\ test' = NullTest
           /\ answers' = << >>
           /\ currentQuestionIndex' = 0
           /\ testAttempt' = NullAttempt
    ]_vars

\* C21: when Submit Test is clicked the unanswered count the handler
\* computes is the number of questions minus the number of entries of the
\* AnswerSet, and the incomplete-answers dialog is the first one raised
\* exactly when that number is positive.
C21_UnansweredCount ==
  [][ lastOp' = "handleSubmitTest" =>
        LET missing == Len(test.questions) - Cardinality(DOMAIN answers) IN
          /\ unansweredCount(test, answers) = missing
          /\ confirmLog' # << >>
          /\ (confirmLog'[1].dialog = "incomplete") <=> (missing > 0)
    ]_vars

\* C21 witness: Submit Test was clicked with one of two questions answered,
\* the incomplete-answers dialog accepted and the final one declined.
C21_Witness ==
  /\ lastOp = "handleSubmitTest"
  /\ confirmLog = <<Dialog("incomplete", TRUE), Dialog("final", FALSE)>>
  /\ Len(test.questions) = 2
  /\ Cardinality(DOMAIN answers) = 1

Navigations == {"handlePreviousQuestion", "handleNextQuestion"}

\* C22: a step of Previous or Next leaves the screen, the test, the
\* AnswerSet, the start instant, the elapsed seconds, the live interval,
\* both in-flight flags, the attempt and the pending calls as they were.
C22_NavigationFrame ==
  [][ lastOp' \in Navigations =>
        /\ currentQuestionIndex' # currentQuestionIndex
        /\ UNCHANGED <<testModalOpen, currentScreen, test, answers,
                       startTime, elapsedSeconds, timerStart, isSubmitting,
                       isGenerating, testAttempt, generateError, inflight>>
    ]_vars

\* C22 witness: Previous was clicked while a submit call is outstanding,
\* one second into a session with an answer.
C22_Witness ==
  /\ lastOp = "handlePreviousQuestion"
  /\ isSubmitting
  /\ elapsedSeconds = 1
  /\ Cardinality(DOMAIN answers) = 1

\* C23: a step of an option button changes no entry of the AnswerSet but
\* the one of the question on display, and leaves the screen, the index, the
\* start instant, the test, the timer, the flags, the attempt and the set of
\* pending calls as they were.
C23_AnswerFrame ==
  [][ lastOp' = "handleAnswerSelect" =>
        /\ DOMAIN answers' = DOMAIN answers \cup {Key(currentQuestion)}
        /\ \A k \in DOMAIN answers \ {Key(currentQuestion)} :
             answers'[k] = answers[k]
        /\ UNCHANGED <<testModalOpen, currentScreen, currentQuestionIndex,
                       test, startTime, elapsedSeconds, timerStart,
                       isSubmitting, isGenerating, testAttempt,
                       generateError, inflight>>
    ]_vars

\* C23 witness: the second question was answered one second into the
\* session, the first one keeping its answer, with no call pending.
C23_Witness ==
  /\ lastOp = "handleAnswerSelect"
  /\ currentQuestionIndex = 1
  /\ elapsedSeconds = 1
  /\ Cardinality(DOMAIN answers) = 2
  /\ MountedCalls("submit") = {}

\* C24: while the modal is open, the test screen has a test with at least
\* one question and a start instant, the results screen has an attempt, the
\* start screen has none, and the main render shows one of the three screens.
C24_ScreenDataConsistent ==
  testModalOpen =>
    /\ currentScreen = "test" =>
         /\ test # NullTest
         /\ Len(test.questions) >= 1
         /\ startTime # NullTime
    /\ currentScreen = "results" => testAttempt # NullAttempt
    /\ currentScreen = "start" => testAttempt = NullAttempt
    /\ StartScreenRendered \/ TestScreenRendered \/ ResultsScreenRendered

\* C25: a step of handleSubmitTest, and so every step that issues a submit
\* call, starts on the last question of the test (index N - 1).
C25_SubmitOnLastQuestion ==
  [][ (lastOp' = "handleSubmitTest"
       \/ \E c \in inflight' \ inflight : c.kind = "submit" /\ Mounted(c)) =>
        /\ Len(test.questions) >= 1
        /\ currentQuestionIndex = Len(test.questions) - 1
    ]_vars

\* C25 witness: a submit call was issued from the second question of a
\* two-question test that has no answer.
C25_Witness ==
  /\ lastOp = "handleSubmitTest"
  /\ isSubmitting
  /\ Len(test.questions) = 2
  /\ currentQuestionIndex = 1
  /\ answers = << >>
  /\ MountedCalls("submit") # {}

\* C26: the step in which a call of the mounted modal settles, by success
\* or by failure, leaves the flag of its kind false; and when every call
\* settles in the end, isGenerating and isSubmitting never stay true for ever.
C26_FlagsReset ==
  /\ [][ lastOp' \in Settlements =>
            \A c \in Settled :
               /\ (Mounted(c) /\ c.kind = "generate") => ~isGenerating'
               /\ (Mounted(c) /\ c.kind = "submit") => ~isSubmitting'
       ]_vars
  /\ []<>~isGenerating
  /\ []<>~isSubmitting

\* C26 witness: a submit call of the mounted modal has just failed, and
\* Submit Test is enabled again on the test screen.
C26_Witness ==
  /\ lastOp = "submitRejected"
  /\ alertMsg = SubmitAlert
  /\ TestScreenRendered
  /\ ~isSubmitting
  /\ inflight = {}

\* C27: once a failed refresh has cleared the stored tokens and sent the
\* browser to /login, no step of a response interceptor stores a token.
C27_NoWriteAfterClear ==
  [][ location = LoginLocation =>
        /\ storage'.accessToken \in {NullStr, storage.accessToken}
        /\ storage'.refreshToken \in {NullStr, storage.refreshToken}
    ]_<<vars, rest>>

\* C28: a request answered 401 for the first time while no refresh token is
\* stored is rejected with that 401 in the same step, with no refresh call,
\* no replay and no change of the stored tokens or of the location; and a
\* step of an interceptor clears the tokens or changes the location only
\* when it is the failure of a refresh call, and then it does both.
C28_NoRefreshTokenRejects ==
  [][ /\ \A r \in 1..MaxRequests :
           LET old == reqs[r]
               new == reqs'[r]
           IN (/\ old.phase = "sent" /\ new.phase \notin {"sent", "resolved"}
               /\ new.status = 401 /\ ~old.retry
               /\ ~TruthyStr(storage.refreshToken)) =>
                 /\ new.phase = "rejected"
                 /\ new.refreshes = old.refreshes
                 /\ new.sends = old.sends
                 /\ UNCHANGED <<storage, location>>
      /\ (reqs' # reqs /\ (location' # location
                           \/ (storage' = clearTokens /\ storage' # storage))) =>
           /\ \E r \in 1..MaxRequests :
                 /\ reqs[r].phase = "refreshing"
                 /\ reqs[r].refreshes = 1
                 /\ reqs'[r].phase = "rejected"
           /\ storage' = clearTokens
           /\ location' = LoginLocation
    ]_<<vars, rest>>

\* C28 witness: with the access token alone in storage a request was
\* answered 401 and rejected at once; storage and location are as they were.
C28_Witness ==
  /\ storage.accessToken = "access0"
  /\ storage.refreshToken = NullStr
  /\ location = AppLocation
  /\ \E r \in 1..MaxRequests :
       /\ reqs[r].phase = "rejected"
       /\ reqs[r].status = 401
       /\ reqs[r].retry
       /\ reqs[r].sends = 1
       /\ reqs[r].refreshes = 0

\* C29: the step in which a login call or a registration call succeeds
\* leaves the access token and the refresh token of the response under the
\* keys accessToken and refreshToken.
C29_BothTokensStored ==
  [][ auth'.logins = auth.logins + 1 =>
        LET response == AuthResponse(auth'.logins) IN
          /\ storage'.accessToken = response.access
          /\ storage'.refreshToken = response.refresh
    ]_<<vars, rest>>

\* C30: the install prompt is not on screen while a dismissal less than
\* seven days old is stored, nor once the app is installed.
C30_NoPromptAfterDismissal ==
  /\ DismissedRecently(storage.installPromptDismissed, now) => ~PromptRendered
  /\ (install.isInstalled \/ install.appInstalled) => ~PromptRendered

\* the page loads with a user logged in and no request under way
PageLoad == Init /\ RestIdle

Spec == PageLoad /\ [][Next]_<<vars, rest>>

\* every awaited call settles: weak fairness of the settlement of the call
\* the mounted modal awaits, written on states (the modal awaits at most one
\* call of a kind, so the settlement leaves none pending)
CallsComplete ==
  /\ []<>(MountedCalls("generate") = {})
  /\ []<>(MountedCalls("submit") = {})

\* the modal when no call stays pending for ever
FairSpec == Spec /\ CallsComplete

RestSpec == RestInit /\ [][RestNext]_<<vars, rest>>

AuthSpec == AuthInit /\ [][AuthNext]_<<vars, rest>>

InstallSpec == InstallInit /\ [][InstallNext]_<<vars, rest>>
====
